---- MODULE Spec2Model ----
(***************************************************************************)
(* vec2d: a flat, row-major 2D container (Vec2D) and its rectangle         *)
(* iterators (RectIter, RectIterMut), modelled from src/src/lib.rs.        *)
(*                                                                         *)
(* A raw pointer into the buffer is modelled by its element offset from    *)
(* the start of the buffer (elems.as_ptr()); the buffer is a 1-based       *)
(* sequence, so offset o designates elems[o + 1].                          *)
(***************************************************************************)
EXTENDS Integers, Sequences, FiniteSets, TLC

\* ------------------------------------------------------------------ bounds

\* Largest container width / height the callers build.
MaxWidth == 3
MaxHeight == 2
\* Number of bits of the model's usize (the wrap-around of `width - 1`).
UsizeBits == 6
\* SpecMut and SpecShared: largest container area (buffer length).
MaxArea == 4
\* SpecShared: number of RectIter values alive at once (the two iterators of
\* test_two_iterators).
NumShared == 2

USIZE_MAX == 2 ^ UsizeBits - 1

\* usize subtraction as a build without overflow checks computes it.
wrapping_sub(a, b) == (a - b) % (USIZE_MAX + 1)

\* ------------------------------------------------------------ Option<T>

None == [tag |-> "None"]
Some(v) == [tag |-> "Some", val |-> v]
\* A panic (arithmetic overflow with overflow checks on, unwrap of None,
\* index out of range): the call does not return.
Panic == [tag |-> "Panic"]

\* ---------------------------------------------------------- Coord / Size

Coord_new(x, y) == [x |-> x, y |-> y]

Size_new(width, height) == [width |-> width, height |-> height]

Size_area(size) == size.width * size.height

Size_contains_coord_le(size, coord) ==
    coord.x <= size.width /\ coord.y <= size.height

Size_contains_coord(size, coord) ==
    coord.x < size.width /\ coord.y < size.height

\* Size::rect. `width - 1` / `height - 1` on a zero dimension panics when the
\* build checks overflow and wraps to usize::MAX when it does not.
Size_rect(size, checks) ==
    IF checks /\ (size.width = 0 \/ size.height = 0)
    THEN Panic
    ELSE Some([min_coord |-> Coord_new(0, 0),
               max_coord |-> Coord_new(wrapping_sub(size.width, 1),
                                       wrapping_sub(size.height, 1))])

\* ------------------------------------------------------------------ Rect

Rect_new_x_only(min_coord, max_coord) ==
    IF min_coord.x <= max_coord.x
    THEN Some([min_coord |-> min_coord, max_coord |-> max_coord])
    ELSE None

Rect_new(min_coord, max_coord) ==
    IF min_coord.x <= max_coord.x /\ min_coord.y <= max_coord.y
    THEN Some([min_coord |-> min_coord, max_coord |-> max_coord])
    ELSE None

Rect_width(rect) == rect.max_coord.x - rect.min_coord.x + 1

Rect_height(rect) == rect.max_coord.y - rect.min_coord.y + 1

Rect_size(rect) == Size_new(Rect_width(rect), Rect_height(rect))

Rect_contains_coord(rect, coord) ==
    /\ coord.x >= rect.min_coord.x
    /\ coord.x <= rect.max_coord.x
    /\ coord.y >= rect.min_coord.y
    /\ coord.y <= rect.max_coord.y

\* ----------------------------------------------------------------- Vec2D
\* A Vec2D is [elems |-> <sequence>, size |-> Size]. A reference to an element
\* is modelled by the element's place: its 0-based flat index in elems.

\* Vec::resize of the standard library: truncate, or extend with `value`.
Vec_resize_refill(elems, new_len, value) ==
    [i \in 1..new_len |-> value]

Vec_resize(elems, new_len, value) ==
    [i \in 1..new_len |-> IF i <= Len(elems) THEN elems[i] ELSE value]

from_example(size, example) ==
    [elems |-> [i \in 1..Size_area(size) |-> example], size |-> size]

resize_keep_size(self, new_size, value) ==
    [elems |-> Vec_resize(self.elems, Size_area(new_size), value),
     size |-> self.size]

resize(self, new_size, value) ==
    [elems |-> Vec_resize(self.elems, Size_area(new_size), value),
     size |-> new_size]

from_vec_at_least(size, src) ==
    IF Size_area(size) <= Len(src)
    THEN Some([elems |-> src, size |-> size])
    ELSE None

from_vec(size, src) ==
    IF Size_area(size) = Len(src)
    THEN Some([elems |-> src, size |-> size])
    ELSE None

\* &self.elems[i]: the bounds-checked indexing of a Vec.
Vec_index(elems, i) == IF i < Len(elems) THEN Some(i) ELSE Panic

get_transposed(self, coord) ==
    IF Size_contains_coord(self.size, coord)
    THEN Vec_index(self.elems, coord.x * self.size.height + coord.y)
    ELSE None

get(self, coord) ==
    IF Size_contains_coord(self.size, coord)
    THEN Vec_index(self.elems, coord.y * self.size.width + coord.x)
    ELSE None

get_mut(self, coord) ==
    IF Size_contains_coord(self.size, coord)
    THEN Vec_index(self.elems, coord.y * self.size.width + coord.x)
    ELSE None

rect(self, checks) == Size_rect(self.size, checks)

size(self) == self.size

stride_full_row(self, r) == self.size.width

stride_no_plus_one(self, r) == self.size.width - Rect_width(r)

stride(self, r) == self.size.width + 1 - Rect_width(r)

start_offset_row_only(self, start) == start.y * self.size.width

\* The value start_offset returns.
start_offset(self, start) == start.y * self.size.width + start.x

\* The debug_assert_eq! of start_offset: it fires only in a build with debug
\* assertions (the same builds that check overflow).
start_offset_asserts(self, start, checks) ==
    checks /\ ~Size_contains_coord(self.size, start)

\* Option::unwrap of an iterator factory's result.
unwrap(opt) == IF opt = None THEN Panic ELSE opt

rect_iter_at_no_start_check(self, r, start, checks) ==
    IF Size_contains_coord(self.size, r.max_coord)
    THEN IF start_offset_asserts(self, start, checks)
         THEN Panic
         ELSE Some([stride |-> stride(self, r),
                    cur_elem |-> start_offset(self, start),
                    rect |-> r,
                    cur_coord |-> start])
    ELSE None

rect_iter_at(self, r, start, checks) ==
    IF Size_contains_coord(self.size, r.max_coord)
       /\ Rect_contains_coord(r, start)
    THEN IF start_offset_asserts(self, start, checks)
         THEN Panic
         ELSE Some([stride |-> stride(self, r),
                    cur_elem |-> start_offset(self, start),
                    rect |-> r,
                    cur_coord |-> start])
    ELSE None

rect_iter(self, r, checks) == rect_iter_at(self, r, r.min_coord, checks)

iter(self, checks) ==
    LET whole == Size_rect(self.size, checks)
    IN  IF whole = Panic THEN Panic
        ELSE unwrap(rect_iter(self, whole.val, checks))

rect_iter_mut_at_cursor_at_min(self, r, start, checks) ==
    IF Size_contains_coord(self.size, r.max_coord)
       /\ Rect_contains_coord(r, start)
    THEN IF start_offset_asserts(self, start, checks)
         THEN Panic
         ELSE Some([stride |-> stride(self, r),
                    cur_elem |-> start_offset(self, start),
                    rect |-> r,
                    cur_coord |-> r.min_coord])
    ELSE None

rect_iter_mut_at(self, r, start, checks) ==
    IF Size_contains_coord(self.size, r.max_coord)
       /\ Rect_contains_coord(r, start)
    THEN IF start_offset_asserts(self, start, checks)
         THEN Panic
         ELSE Some([stride |-> stride(self, r),
                    cur_elem |-> start_offset(self, start),
                    rect |-> r,
                    cur_coord |-> start])
    ELSE None

rect_iter_mut(self, r, checks) == rect_iter_mut_at(self, r, r.min_coord, checks)

iter_mut(self, checks) ==
    LET whole == Size_rect(self.size, checks)
    IN  IF whole = Panic THEN Panic
        ELSE unwrap(rect_iter_mut(self, whole.val, checks))

\* -------------------------------------------------- RectIter / RectIterMut
\* An iterator is [rect, cur_elem, cur_coord, stride]; cur_elem is the offset
\* of the raw pointer from the start of the buffer. next returns the iterator
\* after the call and the item: None, or Some([coord, elem]) with elem the
\* place the emitted reference points at.

RectIter_next_wrap_to_zero(self) ==
    IF self.cur_coord.y <= self.rect.max_coord.y
    THEN LET result == [coord |-> self.cur_coord, elem |-> self.cur_elem]
             x1 == self.cur_coord.x + 1
         IN  IF x1 <= self.rect.max_coord.x
             THEN [self |-> [self EXCEPT !.cur_coord.x = x1,
                                         !.cur_elem = @ + 1],
                   result |-> Some(result)]
             ELSE [self |-> [self EXCEPT
                                !.cur_coord = Coord_new(0, self.cur_coord.y + 1),
                                !.cur_elem = @ + self.stride],
                   result |-> Some(result)]
    ELSE [self |-> self, result |-> None]

RectIter_next_stop_early(self) ==
    IF self.cur_coord.y < self.rect.max_coord.y
    THEN LET result == [coord |-> self.cur_coord, elem |-> self.cur_elem]
             x1 == self.cur_coord.x + 1
         IN  IF x1 <= self.rect.max_coord.x
             THEN [self |-> [self EXCEPT !.cur_coord.x = x1,
                                         !.cur_elem = @ + 1],
                   result |-> Some(result)]
             ELSE [self |-> [self EXCEPT
                                !.cur_coord = Coord_new(self.rect.min_coord.x,
                                                        self.cur_coord.y + 1),
                                !.cur_elem = @ + self.stride],
                   result |-> Some(result)]
    ELSE [self |-> self, result |-> None]

RectIter_next(self) ==
    IF self.cur_coord.y <= self.rect.max_coord.y
    THEN LET result == [coord |-> self.cur_coord, elem |-> self.cur_elem]
             x1 == self.cur_coord.x + 1
         IN  IF x1 <= self.rect.max_coord.x
             THEN [self |-> [self EXCEPT !.cur_coord.x = x1,
                                         !.cur_elem = @ + 1],
                   result |-> Some(result)]
             ELSE [self |-> [self EXCEPT
                                !.cur_coord = Coord_new(self.rect.min_coord.x,
                                                        self.cur_coord.y + 1),
                                !.cur_elem = @ + self.stride],
                   result |-> Some(result)]
    ELSE [self |-> self, result |-> None]

RectIterMut_next_emit_after_advance(self) ==
    IF self.cur_coord.y <= self.rect.max_coord.y
    THEN LET x1 == self.cur_coord.x + 1
         IN  IF x1 <= self.rect.max_coord.x
             THEN [self |-> [self EXCEPT !.cur_coord.x = x1,
                                         !.cur_elem = @ + 1],
                   result |-> Some([coord |-> self.cur_coord,
                                    elem |-> self.cur_elem + 1])]
             ELSE [self |-> [self EXCEPT
                                !.cur_coord = Coord_new(self.rect.min_coord.x,
                                                        self.cur_coord.y + 1),
                                !.cur_elem = @ + self.stride],
                   result |-> Some([coord |-> self.cur_coord,
                                    elem |-> self.cur_elem + self.stride])]
    ELSE [self |-> self, result |-> None]

RectIterMut_next_wrap_by_one(self) ==
    IF self.cur_coord.y <= self.rect.max_coord.y
    THEN LET result == [coord |-> self.cur_coord, elem |-> self.cur_elem]
             x1 == self.cur_coord.x + 1
         IN  IF x1 <= self.rect.max_coord.x
             THEN [self |-> [self EXCEPT !.cur_coord.x = x1,
                                         !.cur_elem = @ + 1],
                   result |-> Some(result)]
             ELSE [self |-> [self EXCEPT
                                !.cur_coord = Coord_new(self.rect.min_coord.x,
                                                        self.cur_coord.y + 1),
                                !.cur_elem = @ + 1],
                   result |-> Some(result)]
    ELSE [self |-> self, result |-> None]

RectIterMut_next_no_advance_on_wrap(self) ==
    IF self.cur_coord.y <= self.rect.max_coord.y
    THEN LET result == [coord |-> self.cur_coord, elem |-> self.cur_elem]
             x1 == self.cur_coord.x + 1
         IN  IF x1 <= self.rect.max_coord.x
             THEN [self |-> [self EXCEPT !.cur_coord.x = x1,
                                         !.cur_elem = @ + 1],
                   result |-> Some(result)]
             ELSE [self |-> [self EXCEPT
                                !.cur_coord = Coord_new(self.rect.min_coord.x,
                                                        self.cur_coord.y + 1)],
                   result |-> Some(result)]
    ELSE [self |-> self, result |-> None]

RectIterMut_next(self) ==
    IF self.cur_coord.y <= self.rect.max_coord.y
    THEN LET result == [coord |-> self.cur_coord, elem |-> self.cur_elem]
             x1 == self.cur_coord.x + 1
         IN  IF x1 <= self.rect.max_coord.x
             THEN [self |-> [self EXCEPT !.cur_coord.x = x1,
                                         !.cur_elem = @ + 1],
                   result |-> Some(result)]
             ELSE [self |-> [self EXCEPT
                                !.cur_coord = Coord_new(self.rect.min_coord.x,
                                                        self.cur_coord.y + 1),
                                !.cur_elem = @ + self.stride],
                   result |-> Some(result)]
    ELSE [self |-> self, result |-> None]

\* ------------------------------------------------------------------ state

VARIABLES
    grid,            \* Option<Vec2D>: None until a constructor has succeeded
    shared,          \* shared[i]: Option<RectIter>, the live shared iterators
    excl,            \* Option<RectIterMut>, the live exclusive iterator
    trace,           \* trace[i]: what shared iterator i was made from, has emitted
    trace_mut,       \* the same for the exclusive iterator, with the writes
    ret,             \* the call that has just returned: [op, arg, val]
    panicked         \* TRUE once a call has panicked

vars == <<grid, shared, excl, trace, trace_mut, ret, panicked>>

\* ----------------------------------------------------------------- inputs

Widths == 0..MaxWidth
Heights == 0..MaxHeight
Sizes == {Size_new(w, h) : w \in Widths, h \in Heights}
\* Coordinates the callers pass: every cell of the largest container and one
\* column / row beyond it.
Coords == {Coord_new(x, y) : x \in 0..MaxWidth, y \in 0..MaxHeight}
\* The element the callers replicate and fill with.
Examples == {0}
\* from_vec input of length n: the elements 1, 2, .., n.
Data(n) == [i \in 1..n |-> i]
\* The Rect values a caller can hold: Rect's fields are private, so a Rect
\* comes from Rect::new or from Size::rect.
Rects ==
    {o.val : o \in {Rect_new(a, b) : a \in Coords, b \in Coords} \ {None}}
    \cup {o.val : o \in {Size_rect(s, c) : s \in Sizes, c \in BOOLEAN} \ {Panic}}
\* The coordinates of a container's cells, and one column / row beyond them.
CoordsNear(self) ==
    {Coord_new(x, y) : x \in 0..self.size.width, y \in 0..self.size.height}
\* The (rect, start) pairs a caller passes to rect_iter_at / rect_iter_mut_at
\* on a container: the corners of the rect and the start are cells of the
\* container or lie one column / row beyond it, so that every pair the
\* factory accepts is among them, and pairs it refuses for either reason.
RectStartsNear(self) ==
    {[rect |-> o.val, start |-> c] :
        o \in {Rect_new(a, b) : a \in CoordsNear(self),
                                b \in CoordsNear(self)} \ {None},
        c \in CoordsNear(self)}
\* Whether the build checks arithmetic overflow and debug assertions (a debug
\* build) or not (a release build): either, at every call where it matters.
Builds == BOOLEAN

\* What a read through a reference to place `elem` can yield: the element,
\* or anything at all when the place is outside the buffer (undefined
\* behaviour).
Garbage == {-99, 99}
deref(elems, elem) ==
    IF elem >= 0 /\ elem < Len(elems) THEN {elems[elem + 1]} ELSE Garbage

\* -------------------------------------------------------------- borrowing
\* The lifetime 'a of RectIter<'a> / RectIterMut<'a> borrows the Vec2D: a
\* `&self` method needs no live exclusive iterator, a `&mut self` method no
\* live iterator at all.

can_borrow_unchecked(ex) == TRUE

can_borrow(ex) == ex = None

can_borrow_mut(sh, ex) == ex = None /\ \A i \in DOMAIN sh : sh[i] = None

\* A shared iterator is alive.
SharedAlive == \E i \in DOMAIN shared : shared[i] # None

NoCall == [op |-> "none", arg |-> None, val |-> None]

\* The caller is between two calls, on a constructed container.
Running == ~panicked /\ grid # None /\ ret = NoCall

\* The record of one iterator: the factory that made it, from what, and the
\* items it has emitted so far.
NewTrace(op, r, start) ==
    Some([by |-> op, rect |-> r, start |-> start, items |-> <<>>])

Init ==
    /\ grid = None
    /\ shared = [i \in 1..NumShared |-> None]
    /\ excl = None
    /\ trace = [i \in 1..NumShared |-> None]
    /\ trace_mut = None
    /\ ret = NoCall
    /\ panicked = FALSE

\* ----------------------------------------------------------- constructors

FromExample(sz, example) ==
    /\ ~panicked /\ grid = None /\ ret = NoCall
    /\ grid' = Some(from_example(sz, example))
    /\ ret' = [op |-> "from_example", arg |-> sz, val |-> grid']
    /\ UNCHANGED <<shared, excl, trace, trace_mut, panicked>>

FromVec(sz, n) ==
    /\ ~panicked /\ grid = None /\ ret = NoCall
    /\ grid' = from_vec(sz, Data(n))
    /\ ret' = [op |-> "from_vec", arg |-> [size |-> sz, len |-> n], val |-> grid']
    /\ UNCHANGED <<shared, excl, trace, trace_mut, panicked>>

\* ------------------------------------------------------ container methods

Resize(new_size, value) ==
    /\ Running /\ can_borrow_mut(shared, excl)
    /\ grid' = Some(resize(grid.val, new_size, value))
    /\ ret' = [op |-> "resize", arg |-> new_size, val |-> None]
    /\ UNCHANGED <<shared, excl, trace, trace_mut, panicked>>

Get(coord) ==
    /\ Running /\ can_borrow(excl)
    /\ LET r == get(grid.val, coord)
       IN  /\ ret' = [op |-> "get", arg |-> coord, val |-> r]
           /\ panicked' = (r = Panic)
    /\ UNCHANGED <<grid, shared, excl, trace, trace_mut>>

GetMut(coord) ==
    /\ Running /\ can_borrow_mut(shared, excl)
    /\ LET r == get_mut(grid.val, coord)
       IN  /\ ret' = [op |-> "get_mut", arg |-> coord, val |-> r]
           /\ panicked' = (r = Panic)
    /\ UNCHANGED <<grid, shared, excl, trace, trace_mut>>

\* The caller negates the element behind the reference get_mut has just
\* returned (as the test of the exclusive iterator does with the elements it
\* is handed).
WriteGot ==
    /\ ~panicked /\ ret.op = "get_mut" /\ ret.val.tag = "Some"
    /\ grid' = Some([grid.val EXCEPT !.elems[ret.val.val + 1] = 0 - @])
    /\ ret' = [op |-> "write_got", arg |-> ret.arg, val |-> ret.val]
    /\ UNCHANGED <<shared, excl, trace, trace_mut, panicked>>

RectOf ==
    /\ Running /\ can_borrow(excl)
    /\ \E checks \in Builds :
         LET r == rect(grid.val, checks)
         IN  /\ ret' = [op |-> "rect", arg |-> None, val |-> r]
             /\ panicked' = (r = Panic)
    /\ UNCHANGED <<grid, shared, excl, trace, trace_mut>>

\* ------------------------------------------------------ iterator factories

\* The state after a factory call that returned `made` for shared slot i.
SharedMade(i, op, r, start, made) ==
    /\ ret' = [op |-> op, arg |-> [rect |-> r, start |-> start], val |-> made]
    /\ panicked' = (made = Panic)
    /\ IF made.tag = "Some"
       THEN /\ shared' = [shared EXCEPT ![i] = made]
            /\ trace' = [trace EXCEPT ![i] = NewTrace(op, r, start)]
       ELSE UNCHANGED <<shared, trace>>
    /\ UNCHANGED <<grid, excl, trace_mut>>

Iter(i) ==
    /\ Running /\ can_borrow(excl) /\ shared[i] = None
    /\ \E checks \in Builds :
         LET made == iter(grid.val, checks)
         IN  IF made.tag = "Some"
             THEN SharedMade(i, "iter", made.val.rect, made.val.cur_coord, made)
             ELSE SharedMade(i, "iter", None, None, made)

RectIterCall(i, RS) ==
    /\ Running /\ can_borrow(excl) /\ shared[i] = None
    /\ \E r \in RS, checks \in Builds :
         SharedMade(i, "rect_iter", r, r.min_coord,
                    rect_iter(grid.val, r, checks))

RectIterAt(i, Args) ==
    /\ Running /\ can_borrow(excl) /\ shared[i] = None
    /\ \E a \in Args, checks \in Builds :
         SharedMade(i, "rect_iter_at", a.rect, a.start,
                    rect_iter_at(grid.val, a.rect, a.start, checks))

\* The state after a factory call that returned `made` for the exclusive slot.
ExclMade(op, r, start, made) ==
    /\ ret' = [op |-> op, arg |-> [rect |-> r, start |-> start], val |-> made]
    /\ panicked' = (made = Panic)
    /\ IF made.tag = "Some"
       THEN /\ excl' = made
            /\ trace_mut' = NewTrace(op, r, start)
       ELSE UNCHANGED <<excl, trace_mut>>
    /\ UNCHANGED <<grid, shared, trace>>

IterMut ==
    /\ Running /\ can_borrow_mut(shared, excl)
    /\ \E checks \in Builds :
         LET made == iter_mut(grid.val, checks)
         IN  IF made.tag = "Some"
             THEN ExclMade("iter_mut", made.val.rect, made.val.cur_coord, made)
             ELSE ExclMade("iter_mut", None, None, made)

RectIterMutCall(RS) ==
    /\ Running /\ can_borrow_mut(shared, excl)
    /\ \E r \in RS, checks \in Builds :
         ExclMade("rect_iter_mut", r, r.min_coord,
                  rect_iter_mut(grid.val, r, checks))

RectIterMutAt(Args) ==
    /\ Running /\ can_borrow_mut(shared, excl)
    /\ \E a \in Args, checks \in Builds :
         ExclMade("rect_iter_mut_at", a.rect, a.start,
                  rect_iter_mut_at(grid.val, a.rect, a.start, checks))

\* ------------------------------------------------------------- iteration

\* next() on shared iterator i; the caller reads the element it is handed.
Next_(i) ==
    /\ Running /\ shared[i] # None
    /\ LET step == RectIter_next(shared[i].val)
       IN  /\ shared' = [shared EXCEPT ![i] = Some(step.self)]
           /\ IF step.result = None
              THEN /\ ret' = [op |-> "next", arg |-> i, val |-> None]
                   /\ UNCHANGED trace
              ELSE \E v \in deref(grid.val.elems, step.result.val.elem) :
                     LET item == [coord |-> step.result.val.coord,
                                  elem |-> step.result.val.elem,
                                  val |-> v]
                     IN  /\ ret' = [op |-> "next", arg |-> i, val |-> Some(item)]
                         /\ trace' = [trace EXCEPT
                                        ![i].val.items = Append(@, item)]
    /\ UNCHANGED <<grid, excl, trace_mut, panicked>>

\* next() on the exclusive iterator; the reference it hands out lives as long
\* as the borrow 'a.
NextMut ==
    /\ Running /\ excl # None
    /\ LET step == RectIterMut_next(excl.val)
       IN  /\ excl' = Some(step.self)
           /\ IF step.result = None
              THEN /\ ret' = [op |-> "next_mut", arg |-> None, val |-> None]
                   /\ UNCHANGED trace_mut
              ELSE LET item == [coord |-> step.result.val.coord,
                                elem |-> step.result.val.elem,
                                written |-> None]
                   IN  /\ ret' = [op |-> "next_mut", arg |-> None,
                                  val |-> Some(item)]
                       /\ trace_mut' = [trace_mut EXCEPT
                                          !.val.items = Append(@, item)]
    /\ UNCHANGED <<grid, shared, trace, panicked>>

\* The caller negates the element behind the k-th reference the exclusive
\* iterator handed out (`*elem = -(*elem)`), once per reference. A write
\* outside the buffer is undefined behaviour: it corrupts memory unseen, or
\* the program dies.
Write(k) ==
    /\ Running /\ excl # None
    /\ k \in 1..Len(trace_mut.val.items)
    /\ trace_mut.val.items[k].written = None
    /\ LET elem == trace_mut.val.items[k].elem
           elems == grid.val.elems
       IN  IF elem >= 0 /\ elem < Len(elems)
           THEN /\ grid' = Some([grid.val EXCEPT !.elems[elem + 1] = 0 - @])
                /\ trace_mut' = [trace_mut EXCEPT
                       !.val.items[k].written = Some(0 - elems[elem + 1])]
                /\ UNCHANGED panicked
           ELSE /\ panicked' \in BOOLEAN
                /\ trace_mut' = [trace_mut EXCEPT
                       !.val.items[k].written = Some(0)]
                /\ UNCHANGED grid
    /\ ret' = [op |-> "write", arg |-> k, val |-> None]
    /\ UNCHANGED <<shared, excl, trace>>

\* The end of an iterator's borrow. What the iterator emitted stays on record
\* until the caller goes on.
Drop(i) ==
    /\ Running /\ shared[i] # None
    /\ shared' = [shared EXCEPT ![i] = None]
    /\ ret' = [op |-> "drop", arg |-> i, val |-> None]
    /\ UNCHANGED <<grid, excl, trace, trace_mut, panicked>>

DropMut ==
    /\ Running /\ excl # None
    /\ excl' = None
    /\ ret' = [op |-> "drop_mut", arg |-> None, val |-> None]
    /\ UNCHANGED <<grid, shared, trace, trace_mut, panicked>>

\* The caller has looked at what the call returned and goes on to its next
\* call; the records of iterators that are gone are discarded.
Continue ==
    /\ ~panicked /\ ret # NoCall
    /\ ret' = NoCall
    /\ trace' = [i \in DOMAIN trace |-> IF shared[i] = None THEN None ELSE trace[i]]
    /\ trace_mut' = IF excl = None THEN None ELSE trace_mut
    /\ UNCHANGED <<grid, shared, excl, panicked>>

\* --------------------------------------------------------- specifications
\* Spec: one container through its life as its callers read it: the
\* constructors, resize, element access (get between two shared iterations),
\* and one shared and one exclusive iterator made from every Rect a caller
\* can hold and from the (rect, start) pairs on and around the container.

Next ==
    \/ \E sz \in Sizes, e \in Examples : FromExample(sz, e)
    \/ \E sz \in Sizes, n \in 0..(MaxWidth * MaxHeight) : FromVec(sz, n)
    \/ \E sz \in Sizes, e \in Examples : Resize(sz, e)
    \/ ~SharedAlive /\ \E c \in Coords : Get(c)
    \/ \E c \in Coords : GetMut(c)
    \/ RectOf
    \/ Iter(1)
    \/ RectIterCall(1, Rects)
    \/ RectIterAt(1, RectStartsNear(grid.val))
    \/ IterMut
    \/ RectIterMutCall(Rects)
    \/ RectIterMutAt(RectStartsNear(grid.val))
    \/ Next_(1)
    \/ NextMut
    \/ Drop(1)
    \/ DropMut
    \/ Continue

Spec == Init /\ [][Next]_vars

\* SpecMut: one container through its life as its callers write it: the
\* constructors, resize, get / get_mut and the write through what get_mut
\* returned, the exclusive iterator made from the (rect, start) pairs the
\* factory accepts, and the writes through the references it hands out.

SizesMut ==
    {sz \in {Size_new(w, h) : w \in 0..MaxArea, h \in 0..MaxArea} :
        sz.width * sz.height <= MaxArea}
\* The (rect, start) pairs rect_iter_mut_at accepts on a container.
AcceptedMut(self) ==
    {a \in RectStartsNear(self) :
        rect_iter_mut_at(self, a.rect, a.start, TRUE) # None}

NextMutating ==
    \/ \E sz \in SizesMut, e \in Examples : FromExample(sz, e)
    \/ \E sz \in SizesMut, n \in 0..MaxArea : FromVec(sz, n)
    \/ \E sz \in SizesMut, e \in Examples : Resize(sz, e)
    \/ \E c \in CoordsNear(IF grid = None THEN from_example(Size_new(0, 0), 0)
                                          ELSE grid.val) : Get(c)
    \/ \E c \in CoordsNear(IF grid = None THEN from_example(Size_new(0, 0), 0)
                                          ELSE grid.val) : GetMut(c)
    \/ WriteGot
    \/ IterMut
    \/ RectIterMutCall({a.rect : a \in AcceptedMut(grid.val)})
    \/ RectIterMutAt(AcceptedMut(grid.val))
    \/ NextMut
    \/ \E k \in 1..MaxArea : Write(k)
    \/ DropMut
    \/ Continue

SpecMut == Init /\ [][NextMutating]_vars

\* SpecShared: NumShared shared iterators alive over one container built by
\* from_vec, made from the rects and (rect, start) pairs the factory accepts
\* and advanced in any interleaving.

AcceptedShared(self) ==
    {a \in RectStartsNear(self) :
        rect_iter_at(self, a.rect, a.start, TRUE) # None}

NextShared ==
    \/ \E sz \in SizesMut, n \in 0..MaxArea : FromVec(sz, n)
    \/ \E i \in 1..NumShared :
         RectIterCall(i, {a.rect : a \in AcceptedShared(grid.val)})
    \/ \E i \in 1..NumShared : RectIterAt(i, AcceptedShared(grid.val))
    \/ \E i \in 1..NumShared : Next_(i)
    \/ \E i \in 1..NumShared : Drop(i)
    \/ Continue

SpecShared == Init /\ [][NextShared]_vars

\* SpecRect: a caller makes a Rect from every pair of coordinates with
\* Rect::new and asks the Rect it got for its width, height and size.

RectNew(a, b) ==
    /\ ~panicked /\ ret = NoCall
    /\ ret' = [op |-> "Rect::new",
               arg |-> [min_coord |-> a, max_coord |-> b],
               val |-> Rect_new(a, b)]
    /\ UNCHANGED <<grid, shared, excl, trace, trace_mut, panicked>>

RectOps == {"Rect::width", "Rect::height", "Rect::size"}

\* The caller holds a Rect: the one Rect::new has just returned, or the one
\* it has just called a method of.
HoldsRect ==
    \/ ret.op = "Rect::new" /\ ret.val # None
    \/ ret.op \in RectOps

HeldRect == IF ret.op = "Rect::new" THEN ret.val.val ELSE ret.arg

RectWidth ==
    /\ ~panicked /\ HoldsRect
    /\ ret' = [op |-> "Rect::width", arg |-> HeldRect,
               val |-> Some(Rect_width(HeldRect))]
    /\ UNCHANGED <<grid, shared, excl, trace, trace_mut, panicked>>

RectHeight ==
    /\ ~panicked /\ HoldsRect
    /\ ret' = [op |-> "Rect::height", arg |-> HeldRect,
               val |-> Some(Rect_height(HeldRect))]
    /\ UNCHANGED <<grid, shared, excl, trace, trace_mut, panicked>>

RectSize ==
    /\ ~panicked /\ HoldsRect
    /\ ret' = [op |-> "Rect::size", arg |-> HeldRect,
               val |-> Some(Rect_size(HeldRect))]
    /\ UNCHANGED <<grid, shared, excl, trace, trace_mut, panicked>>

NextRect ==
    \/ \E a \in Coords, b \in Coords : RectNew(a, b)
    \/ RectWidth
    \/ RectHeight
    \/ RectSize
    \/ Continue

SpecRect == Init /\ [][NextRect]_vars

\* ==================================================================
\* Properties
\* ==================================================================

\* The records of the iterators that are on record: the shared ones and the
\* exclusive one.
Traces ==
    {trace[i].val : i \in {j \in DOMAIN trace : trace[j] # None}}
    \cup (IF trace_mut # None THEN {trace_mut.val} ELSE {})

\* The live iterator a record belongs to, with its record.
Live ==
    {[it |-> shared[i].val, tr |-> trace[i].val] :
        i \in {j \in DOMAIN shared : shared[j] # None}}
    \cup (IF excl # None THEN {[it |-> excl.val, tr |-> trace_mut.val]} ELSE {})

CoordsOf(tr) == [k \in 1..Len(tr.items) |-> tr.items[k].coord]

IsPrefix(s, t) == Len(s) <= Len(t) /\ \A k \in 1..Len(s) : s[k] = t[k]

\* The coordinates of a rect in row-major order: row y ascending, within a
\* row x ascending.
RowMajor(r) ==
    LET w == r.max_coord.x - r.min_coord.x + 1
        h == r.max_coord.y - r.min_coord.y + 1
    IN  [k \in 1..(w * h) |->
            [x |-> r.min_coord.x + ((k - 1) % w),
             y |-> r.min_coord.y + ((k - 1) \div w)]]

\* c is at or after start in row-major order.
AtOrAfter(c, start) == c.y > start.y \/ (c.y = start.y /\ c.x >= start.x)

RowMajorFrom(r, start) ==
    LET Keep(c) == AtOrAfter(c, start) IN SelectSeq(RowMajor(r), Keep)

\* The iterator has no item left: its next() returns None.
Drained(it) == RectIter_next(it).result = None

\* C1: draining rect_iter(rect) or rect_iter_mut(rect) emits every coordinate
\* of the rect exactly once in row-major order, rect.width() * rect.height()
\* items in all: what has been emitted is at every moment the beginning of the
\* rect's row-major sequence, and all of it once the iterator is drained.
C1_RectIterRowMajor ==
    \A l \in Live :
        l.tr.by \in {"rect_iter", "rect_iter_mut"} =>
            /\ IsPrefix(CoordsOf(l.tr), RowMajor(l.tr.rect))
            /\ Drained(l.it) =>
                 /\ CoordsOf(l.tr) = RowMajor(l.tr.rect)
                 /\ Len(l.tr.items) = Rect_width(l.tr.rect) * Rect_height(l.tr.rect)

\* A drained rect_iter / rect_iter_mut over a rect of several rows and columns
\* that starts right of column 0 and is narrower than the container.
C1_Witness ==
    \E l \in Live :
        /\ l.tr.by \in {"rect_iter", "rect_iter_mut"}
        /\ Drained(l.it)
        /\ Len(l.tr.items) >= 4
        /\ l.tr.rect.min_coord.x > 0
        /\ l.tr.rect.max_coord.y > l.tr.rect.min_coord.y
        /\ l.tr.rect.max_coord.x > l.tr.rect.min_coord.x

\* C2: draining rect_iter_at(rect, start) or rect_iter_mut_at(rect, start)
\* emits exactly the coordinates of the rect at or after start in row-major
\* order, start first, and none that precedes start.
C2_RectIterAtFromStart ==
    \A l \in Live :
        l.tr.by \in {"rect_iter_at", "rect_iter_mut_at"} =>
            /\ IsPrefix(CoordsOf(l.tr), RowMajorFrom(l.tr.rect, l.tr.start))
            /\ Drained(l.it) => CoordsOf(l.tr) = RowMajorFrom(l.tr.rect, l.tr.start)
            /\ \A k \in 1..Len(l.tr.items) : AtOrAfter(l.tr.items[k].coord, l.tr.start)
            /\ Len(l.tr.items) >= 1 => l.tr.items[1].coord = l.tr.start

\* A drained rect_iter_at / rect_iter_mut_at over a rect right of column 0
\* whose start is inside a row (cells of the rect precede it) with a full row
\* after it.
C2_Witness ==
    \E l \in Live :
        /\ l.tr.by \in {"rect_iter_at", "rect_iter_mut_at"}
        /\ Drained(l.it)
        /\ l.tr.rect.min_coord.x > 0
        /\ l.tr.start.x > l.tr.rect.min_coord.x
        /\ l.tr.start.y < l.tr.rect.max_coord.y
        /\ Len(l.tr.items) >= 3

\* C3: every item an iterator emits refers to the buffer element at flat
\* index coord.y * size.width + coord.x, the element get(coord) returns,
\* whichever factory made the iterator and whether its rect is narrower than
\* the container or not; what a shared iterator's caller reads through it is
\* that element's value.
C3_ItemIsElementAtCoord ==
    \A tr \in Traces : \A k \in 1..Len(tr.items) :
        LET item == tr.items[k] IN
        /\ item.elem = item.coord.y * grid.val.size.width + item.coord.x
        /\ get(grid.val, item.coord) = Some(item.elem)
        /\ "val" \in DOMAIN item => item.val = grid.val.elems[item.elem + 1]

\* An iterator over a rect narrower than the container has wrapped to its
\* second row and emitted an item there.
C3_Witness ==
    \E tr \in Traces : \E k \in 1..Len(tr.items) :
        /\ tr.items[k].coord.y > tr.rect.min_coord.y
        /\ tr.rect.min_coord.x > 0
        /\ tr.rect.max_coord.x > tr.rect.min_coord.x
        /\ Rect_width(tr.rect) < grid.val.size.width

\* C4: no out-of-bounds dereference: the offset next() dereferences when it
\* emits an item is at least 0 and less than the buffer length, which is
\* size.area(); the factory's two checks suffice for it.
C4_DerefInBounds ==
    \A tr \in Traces : \A k \in 1..Len(tr.items) :
        /\ 0 <= tr.items[k].elem
        /\ tr.items[k].elem < Len(grid.val.elems)
        /\ Len(grid.val.elems) = Size_area(grid.val.size)

\* An iterator started inside its rect has emitted the last element of a
\* container of several rows and columns.
C4_Witness ==
    \E tr \in Traces : \E k \in 1..Len(tr.items) :
        /\ tr.items[k].elem = Len(grid.val.elems) - 1
        /\ grid.val.size.width > 1 /\ grid.val.size.height > 1
        /\ tr.start # tr.rect.min_coord
        /\ k > 1

FactoryOps == {"rect_iter", "rect_iter_at", "rect_iter_mut", "rect_iter_mut_at"}

\* The rect's max coordinate is inside the size / the coordinate is inside
\* the rect, written out.
MaxInside(sz, r) == r.max_coord.x < sz.width /\ r.max_coord.y < sz.height
StartInside(r, c) ==
    /\ r.min_coord.x <= c.x /\ c.x <= r.max_coord.x
    /\ r.min_coord.y <= c.y /\ c.y <= r.max_coord.y

\* What the factory call that has just returned gave: None exactly when
\* rect.max is outside the container's size or start is outside rect (for
\* rect_iter / rect_iter_mut, whose start is rect.min: exactly when rect.max
\* is outside the size), and otherwise an iterator whose cursor is start.
C5_Result ==
    ret.op \in FactoryOps =>
        LET r == ret.arg.rect
            start == ret.arg.start
            fits == MaxInside(grid.val.size, r)
        IN  /\ ret.val = None <=> (~fits \/ ~StartInside(r, start))
            /\ ret.op \in {"rect_iter", "rect_iter_mut"} =>
                 /\ start = r.min_coord
                 /\ ret.val = None <=> ~fits
            /\ ret.val # None =>
                 /\ ret.val.tag = "Some"
                 /\ ret.val.val.cur_coord = start
                 /\ ret.val.val.rect = r

\* A factory call that returns None changes neither the container nor the
\* iterators there are.
C5_Frame ==
    (ret'.op \in FactoryOps /\ ret'.val = None) =>
        (grid' = grid /\ shared' = shared /\ excl' = excl)

\* C5: rect_iter_at / rect_iter_mut_at return None if and only if rect.max is
\* not inside the container's size or start is not inside rect, and otherwise
\* an iterator whose cursor is start; rect_iter / rect_iter_mut return None
\* iff rect.max is not inside the size; a failed call leaves the container's
\* buffer and size unchanged.
C5_FactoryFailure == []C5_Result /\ [][C5_Frame]_vars

\* A factory call has failed only because start is outside a rect that fits
\* the container.
C5_Witness ==
    /\ ret.op \in {"rect_iter_at", "rect_iter_mut_at"}
    /\ ret.val = None
    /\ MaxInside(grid.val.size, ret.arg.rect)
    /\ Len(grid.val.elems) > 1

\* C6: in every state of a constructed container, whatever resizes, writes
\* and exclusive iterations it has been through, the buffer length is
\* size.width * size.height.
C6_LenIsArea ==
    grid # None =>
        Len(grid.val.elems) = grid.val.size.width * grid.val.size.height

\* A resize has just grown a container that had elements written, to a width
\* and height above 1.
C6_Witness ==
    /\ ret.op = "resize"
    /\ grid.val.size.width > 1 /\ grid.val.size.height > 1
    /\ grid.val.elems[1] < 0
    /\ grid.val.elems[Len(grid.val.elems)] = 0

\* C7 (as claimed): on a constructed container, rect(), iter() and iter_mut()
\* return without a hard failure, also when the width or the height is 0, and
\* get / get_mut give None rather than fail.
C7_NoHardFailure ==
    ret.op \in {"rect", "iter", "iter_mut", "get", "get_mut"} => ret.val # Panic

C9_WriteSeenByGet ==
    trace_mut # None =>
        \A k \in 1..Len(trace_mut.val.items) :
            LET item == trace_mut.val.items[k] IN
            item.written # None =>
                /\ get(grid.val, item.coord).tag = "Some"
                /\ grid.val.elems[get(grid.val, item.coord).val + 1]
                     = item.written.val

\* The exclusive iterator over the whole of the 2x2 container built from
\* [1, 2, 3, 4] is dropped after every element was negated: [-1, -2, -3, -4].
C9_Witness ==
    /\ ret.op = "drop_mut"
    /\ trace_mut.val.by = "rect_iter_mut"
    /\ grid.val.size = Size_new(2, 2)
    /\ grid.val.elems = <<-1, -2, -3, -4>>
    /\ Len(trace_mut.val.items) = 4
    /\ \A k \in 1..4 : trace_mut.val.items[k].written # None

\* What a shared iterator emits when it is drained alone: the coordinates of
\* its rect from its start on in row-major order, each with the value of the
\* container's element there.
Alone(self, r, start) ==
    LET cs == RowMajorFrom(r, start)
    IN  [k \in 1..Len(cs) |->
            [coord |-> cs[k],
             val |-> self.elems[cs[k].y * self.size.width + cs[k].x + 1]]]

Emitted(tr) ==
    [k \in 1..Len(tr.items) |->
        [coord |-> tr.items[k].coord, val |-> tr.items[k].val]]

\* With several shared iterators alive and advanced in any interleaving, what
\* each has emitted is the beginning of what it emits alone, all of it once it
\* is drained; two iterators over the same rect from the same start have
\* emitted the same (coord, value) items as far as both have got.
C10_State ==
    /\ \A i \in DOMAIN shared :
         shared[i] # None =>
            /\ IsPrefix(Emitted(trace[i].val),
                        Alone(grid.val, trace[i].val.rect, trace[i].val.start))
            /\ Drained(shared[i].val) =>
                 Emitted(trace[i].val)
                   = Alone(grid.val, trace[i].val.rect, trace[i].val.start)
    /\ \A i, j \in DOMAIN shared :
         (/\ shared[i] # None /\ shared[j] # None
          /\ trace[i].val.rect = trace[j].val.rect
          /\ trace[i].val.start = trace[j].val.start
          /\ Len(trace[i].val.items) <= Len(trace[j].val.items)) =>
            IsPrefix(Emitted(trace[i].val), Emitted(trace[j].val))

\* A next() call changes neither the container nor any other iterator.
C10_Frame ==
    ret'.op = "next" =>
        /\ grid' = grid
        /\ \A i \in DOMAIN shared : i # ret'.arg => shared'[i] = shared[i]

\* C10: shared iterators are independent: alive together over one container
\* and advanced in any interleaving, each emits the sequence it emits alone,
\* next() never changes the container, and two iterators over the same rect
\* emit identical (coord, value) sequences in lock-step.
C10_SharedIndependent == []C10_State /\ [][C10_Frame]_vars

\* Two iterators over the same rect of several rows and columns are both
\* alive and drained, and a third state of the interleaving is behind them:
\* each has emitted all four items.
C10_Witness ==
    /\ shared[1] # None /\ shared[2] # None
    /\ trace[1].val.rect = trace[2].val.rect
    /\ trace[1].val.rect.max_coord.x > trace[1].val.rect.min_coord.x
    /\ trace[1].val.rect.max_coord.y > trace[1].val.rect.min_coord.y
    /\ Len(trace[1].val.items) = 4 /\ Len(trace[2].val.items) = 4
    /\ Drained(shared[1].val) /\ Drained(shared[2].val)

\* The flat indices of a buffer of n elements, 1-based as the model's
\* sequences are.
Indices(n) == 1..n

\* What one resize step does to the buffer B it finds: the size becomes
\* new_size, the buffer has new_size.area() elements, the elements below both
\* lengths keep their flat index, the indices from len(B) on hold the fill
\* value, and a shorter buffer is the prefix of B.
C11_Step ==
    ret'.op = "resize" =>
        LET B == grid.val.elems
            N == grid'.val.elems
            new_size == ret'.arg
            area == new_size.width * new_size.height
        IN  /\ size(grid'.val) = new_size
            /\ Len(N) = area
            /\ \A i \in Indices(area) : i <= Len(B) => N[i] = B[i]
            /\ \E v \in Examples :
                 \A i \in Indices(area) : i > Len(B) => N[i] = v
            /\ area < Len(B) => N = SubSeq(B, 1, area)

\* C11: resize(new_size, v) sets size() to new_size and the buffer length to
\* new_size.area(); elements keep their flat index (also when the width
\* changes), the new indices hold v, and a smaller area leaves the prefix of
\* the old buffer.
C11_ResizeKeepsFlatIndex == [][C11_Step]_vars

\* A resize has grown a container of three elements 1, 2, 3 (one row or one
\* column) to 2x2: the width has changed, the elements kept their flat
\* index and the new index holds the fill value.
C11_Witness ==
    /\ ret.op = "resize"
    /\ grid.val.size = Size_new(2, 2)
    /\ grid.val.elems = <<1, 2, 3, 0>>

\* C12: from_vec(size, data) returns a container if and only if the length
\* of data is size.width * size.height; the container then has the given size
\* and data as its buffer, element for element in the same order; on a length
\* mismatch it returns None and there is no container.
C12_FromVecIffLenIsArea ==
    ret.op = "from_vec" =>
        LET sz == ret.arg.size
            n == ret.arg.len
        IN  /\ ret.val # None <=> n = sz.width * sz.height
            /\ ret.val # None =>
                 /\ ret.val.tag = "Some"
                 /\ grid = ret.val
                 /\ size(grid.val) = sz
                 /\ Len(grid.val.elems) = n
                 /\ \A i \in Indices(n) : grid.val.elems[i] = Data(n)[i]
            /\ ret.val = None => grid = None

\* from_vec has built a container of several rows and columns from a buffer
\* of exactly its area.
C12_Witness ==
    /\ ret.op = "from_vec"
    /\ ret.val # None
    /\ ret.arg.size.width > 1 /\ ret.arg.size.height > 1
    /\ ret.arg.size.width # ret.arg.size.height

\* The rect of a whole container of at least one row and one column.
Whole(sz) ==
    [min_coord |-> [x |-> 0, y |-> 0],
     max_coord |-> [x |-> sz.width - 1, y |-> sz.height - 1]]

\* C13: on a container of width >= 1 and height >= 1, iter() and iter_mut()
\* return the iterator over rect() started at (0, 0); it emits size.area()
\* items, the k-th (k from 0) with coordinate (k mod width, k div width) and
\* the element at flat index k; on a container that from_example(size, e)
\* built every element read is e.
C13_IterIsWholeRectIter ==
    /\ (/\ ret.op \in {"iter", "iter_mut"}
        /\ grid.val.size.width >= 1 /\ grid.val.size.height >= 1) =>
            /\ ret.val.tag = "Some"
            /\ ret.val.val.rect = Whole(grid.val.size)
            /\ ret.val.val.cur_coord = [x |-> 0, y |-> 0]
            /\ ret.val.val.cur_elem = 0
    /\ \A l \in Live :
         l.tr.by \in {"iter", "iter_mut"} =>
            LET w == grid.val.size.width
                h == grid.val.size.height
            IN  /\ w >= 1 /\ h >= 1
                /\ l.tr.rect = Whole(grid.val.size)
                /\ l.tr.start = l.tr.rect.min_coord
                /\ IsPrefix(CoordsOf(l.tr), RowMajor(l.tr.rect))
                /\ Len(l.tr.items) <= w * h
                /\ Drained(l.it) => Len(l.tr.items) = w * h
                /\ \A k \in 1..Len(l.tr.items) :
                     LET item == l.tr.items[k] IN
                     /\ item.coord = [x |-> (k - 1) % w, y |-> (k - 1) \div w]
                     /\ item.elem = k - 1
                     /\ "val" \in DOMAIN item =>
                          /\ item.val = grid.val.elems[k]
                          /\ \A e \in Examples :
                               grid.val = from_example(grid.val.size, e)
                                   => item.val = e

\* iter() over a container of several rows and columns that from_example
\* built is drained: it has emitted as many items as the container has
\* elements.
C13_Witness ==
    \E l \in Live :
        /\ l.tr.by = "iter"
        /\ Drained(l.it)
        /\ grid.val.size.width > 1 /\ grid.val.size.height > 1
        /\ Len(l.tr.items) = Len(grid.val.elems)
        /\ \E e \in Examples : grid.val = from_example(grid.val.size, e)

\* C14: Rect::new(a, b) returns a rect if and only if a.x <= b.x and
\* a.y <= b.y, with min a and max b; its width() is b.x - a.x + 1, its
\* height() b.y - a.y + 1 and its size() (width(), height()); otherwise
\* Rect::new returns None; a Rect a caller holds has min.x <= max.x and
\* min.y <= max.y as long as it is held.
C14_RectNew ==
    /\ ret.op = "Rect::new" =>
         LET a == ret.arg.min_coord
             b == ret.arg.max_coord
         IN  /\ ret.val # None <=> (a.x <= b.x /\ a.y <= b.y)
             /\ ret.val # None =>
                  /\ ret.val.tag = "Some"
                  /\ ret.val.val.min_coord = a
                  /\ ret.val.val.max_coord = b
    /\ HoldsRect =>
         /\ HeldRect.min_coord.x <= HeldRect.max_coord.x
         /\ HeldRect.min_coord.y <= HeldRect.max_coord.y
    /\ ret.op = "Rect::width" =>
         /\ ret.val = Some(ret.arg.max_coord.x - ret.arg.min_coord.x + 1)
         /\ ret.val.val >= 1
    /\ ret.op = "Rect::height" =>
         /\ ret.val = Some(ret.arg.max_coord.y - ret.arg.min_coord.y + 1)
         /\ ret.val.val >= 1
    /\ ret.op = "Rect::size" =>
         /\ ret.val.val.width = ret.arg.max_coord.x - ret.arg.min_coord.x + 1
         /\ ret.val.val.height = ret.arg.max_coord.y - ret.arg.min_coord.y + 1

\* size() has returned on a rect off the origin, wider than high, that
\* Rect::new made.
C14_Witness ==
    /\ ret.op = "Rect::size"
    /\ ret.arg.min_coord.x > 0 /\ ret.arg.min_coord.y > 0
    /\ ret.val.val.width > ret.val.val.height
    /\ ret.val.val.height > 1

SharedFactoryOps == {"iter", "rect_iter", "rect_iter_at"}
ExclFactoryOps == {"iter_mut", "rect_iter_mut", "rect_iter_mut_at"}

\* What no step does: call an iterator factory, get, get_mut or resize while
\* the exclusive iterator is alive, or resize while any iterator is alive, or
\* call a `&mut self` method while a shared iterator is alive.
C15_Step ==
    /\ excl # None =>
         ret'.op \notin SharedFactoryOps \cup ExclFactoryOps
                        \cup {"get", "get_mut", "resize"}
    /\ (excl # None \/ SharedAlive) => ret'.op # "resize"
    /\ SharedAlive => ret'.op \notin ExclFactoryOps \cup {"get_mut"}

\* The exclusive iterator is never alive together with a shared one.
C15_State == ~(excl # None /\ SharedAlive)

\* C15: while an exclusive iterator is alive no other iterator is created and
\* no get, get_mut or resize runs; resize never runs while any iterator is
\* alive; at most one exclusive iterator is alive at any time.
C15_Exclusivity == []C15_State /\ [][C15_Step]_vars

\* The exclusive iterator has been alive over several calls of next, the
\* container having been read and resized before it was made.
C15_Witness ==
    /\ excl # None
    /\ ret.op = "next_mut"
    /\ Len(trace_mut.val.items) >= 2
    /\ grid.val.elems[1] = 1
    /\ grid.val.elems[Len(grid.val.elems)] = 0

\* The step of the specified machine from iterator b to iterator a over a
\* container of width w: within a row the coordinate and the offset advance
\* by one; at the row's last column the coordinate goes to the first column
\* of the next row and the offset advances by w - rect.width() + 1, which
\* takes it from column max.x of row y to column min.x of row y + 1; an
\* exhausted iterator stays as it is.
Machine(b, a, w) ==
    LET x == b.cur_coord.x
        y == b.cur_coord.y
        o == b.cur_elem
        r == b.rect
    IN  /\ a.rect = r
        /\ a.stride = b.stride
        /\ IF y > r.max_coord.y
           THEN a = b
           ELSE IF x < r.max_coord.x
           THEN /\ a.cur_coord = [x |-> x + 1, y |-> y]
                /\ a.cur_elem = o + 1
           ELSE /\ a.cur_coord = [x |-> r.min_coord.x, y |-> y + 1]
                /\ a.cur_elem
                     = o + (w - (r.max_coord.x - r.min_coord.x + 1) + 1)
                /\ o = y * w + r.max_coord.x
                /\ a.cur_elem = (y + 1) * w + r.min_coord.x

\* Every call of next() is a step of the specified machine.
C16_Step ==
    /\ ret'.op = "next" =>
         Machine(shared[ret'.arg].val, shared'[ret'.arg].val,
                 grid.val.size.width)
    /\ ret'.op = "next_mut" =>
         Machine(excl.val, excl'.val, grid.val.size.width)

\* The stride of every iterator a factory has made is
\* size.width - rect.width() + 1, at least 1 and at most size.width.
C16_State ==
    \A l \in Live :
        LET w == grid.val.size.width
            rw == l.it.rect.max_coord.x - l.it.rect.min_coord.x + 1
        IN  /\ l.it.stride = w - rw + 1
            /\ 1 <= l.it.stride
            /\ l.it.stride <= w

\* C16: next() is step for step the specified machine: from a non-exhausted
\* cursor (x, y) at offset o the new state is ((x + 1, y), o + 1) if
\* x < rect.max.x and ((rect.min.x, y + 1), o + stride) otherwise, with the
\* constant stride = size.width - rect.width() + 1, 1 <= stride <= size.width,
\* which moves the offset from column max.x of row y to column min.x of row
\* y + 1.
C16_NextIsMachineStep == []C16_State /\ [][C16_Step]_vars

\* An iterator over a rect narrower than the container and off column 0 has
\* just wrapped from the last column of a row to the first of the next, by
\* a stride above 1.
C16_Witness ==
    \E l \in Live :
        /\ ret.op \in {"next", "next_mut"}
        /\ ret.val # None
        /\ l.it.stride > 1
        /\ l.it.rect.min_coord.x > 0
        /\ l.it.rect.max_coord.x > l.it.rect.min_coord.x
        /\ l.it.cur_coord.x = l.it.rect.min_coord.x
        /\ l.it.cur_coord.y > l.tr.start.y
        /\ l.it.cur_coord.y <= l.it.rect.max_coord.y
        /\ ret.val.val.coord.x = l.it.rect.max_coord.x

\* The number of cells of a rect at or after start (a cell of the rect) in
\* row-major order: the rest of start's row and the rows below it.
CellsFrom(r, start) ==
    (r.max_coord.x - start.x + 1)
    + (r.max_coord.y - start.y) * (r.max_coord.x - r.min_coord.x + 1)

\* An iterator has emitted at most as many items as its rect has cells at or
\* after its start, and that many exactly when its cursor is below the rect
\* (cursor.y > rect.max.y).
C17_State ==
    \A l \in Live :
        LET n == CellsFrom(l.tr.rect, l.tr.start)
            past == l.it.cur_coord.y > l.it.rect.max_coord.y
        IN  /\ Len(l.tr.items) <= n
            /\ past <=> Len(l.tr.items) = n

\* next() returns None exactly when the cursor is below the rect, and then
\* it leaves the cursor coordinate, the cursor offset, the container and
\* what has been emitted as they are; a call that returns an item emits one
\* more, of a coordinate it has not emitted before.
C17_Step ==
    /\ ret'.op = "next" =>
         LET b == shared[ret'.arg].val
             a == shared'[ret'.arg].val
         IN  /\ ret'.val = None <=> b.cur_coord.y > b.rect.max_coord.y
             /\ ret'.val = None =>
                  /\ a = b /\ grid' = grid /\ trace' = trace
                  /\ a.cur_coord.y > a.rect.max_coord.y
             /\ ret'.val # None =>
                  /\ Len(trace'[ret'.arg].val.items)
                       = Len(trace[ret'.arg].val.items) + 1
                  /\ \A k \in 1..Len(trace[ret'.arg].val.items) :
                       trace[ret'.arg].val.items[k].coord
                         # ret'.val.val.coord
    /\ ret'.op = "next_mut" =>
         /\ ret'.val = None <=> excl.val.cur_coord.y > excl.val.rect.max_coord.y
         /\ ret'.val = None =>
              /\ excl' = excl /\ grid' = grid /\ trace_mut' = trace_mut
         /\ ret'.val # None =>
              /\ Len(trace_mut'.val.items) = Len(trace_mut.val.items) + 1
              /\ \A k \in 1..Len(trace_mut.val.items) :
                   trace_mut.val.items[k].coord # ret'.val.val.coord

\* C17: an iterator is exhausted after as many next() calls as its rect has
\* cells at or after its start; it is exhausted exactly when cursor.y >
\* rect.max.y; and exhaustion is terminal: from then on next() returns None
\* and changes neither the cursor coordinate, the cursor offset nor the
\* container.
C17_ExhaustionIsTerminal == []C17_State /\ [][C17_Step]_vars

\* The iterator over the whole of a 1x2 container started at (0, 1) has
\* emitted its one item and next() has then returned None.
C17_Witness ==
    /\ ret.op = "next"
    /\ ret.val = None
    /\ grid.val.size = Size_new(1, 2)
    /\ trace[ret.arg].val.by = "rect_iter_at"
    /\ trace[ret.arg].val.start = [x |-> 0, y |-> 1]
    /\ trace[ret.arg].val.rect = Whole(grid.val.size)
    /\ Len(trace[ret.arg].val.items) = 1
    /\ trace[ret.arg].val.items[1].coord = [x |-> 0, y |-> 1]

\* C18: over the life of one RectIterMut, whatever accepted rect and start
\* it was made from, no two next() calls return a reference to the same flat
\* index: the mutable references one exclusive iterator has handed out are
\* pairwise distinct elements of the buffer.
C18_NoAliasedMutRefs ==
    trace_mut # None =>
        \A j, k \in 1..Len(trace_mut.val.items) :
            j # k => trace_mut.val.items[j].elem # trace_mut.val.items[k].elem

\* An exclusive iterator started inside a rect narrower than the container
\* is drained after emitting references in several rows.
C18_Witness ==
    /\ excl # None
    /\ Drained(excl.val)
    /\ trace_mut.val.by = "rect_iter_mut_at"
    /\ trace_mut.val.start # trace_mut.val.rect.min_coord
    /\ Rect_width(trace_mut.val.rect) < grid.val.size.width
    /\ Rect_width(trace_mut.val.rect) > 1
    /\ Len(trace_mut.val.items) >= 3

\* C19 (as claimed): in every state of an iterator a factory has made, the
\* state after its last item included, the offset of its pointer from the
\* start of the buffer is at most the buffer length size.area(): the pointer
\* is never further than one past the end of the buffer.
C19_OffsetWithinOnePastEnd ==
    \A l \in Live :
        /\ 0 <= l.it.cur_elem
        /\ l.it.cur_elem <= Len(grid.val.elems)
        /\ Len(grid.val.elems) = Size_area(grid.val.size)

\* The flat indices (1-based) of the cells of a container that are outside
\* rect r or precede start in row-major order.
Untouchable(self, r, start) ==
    {c.y * self.size.width + c.x + 1 :
        c \in {c \in {[x |-> x, y |-> y] : x \in 0..(self.size.width - 1),
                                           y \in 0..(self.size.height - 1)} :
                 ~Rect_contains_coord(r, c) \/ ~AtOrAfter(c, start)}}

\* A write through a reference the exclusive iterator emitted changes no
\* element outside the iterator's rect or before its start, nor the size or
\* the buffer length, and exactly the element of the written item's
\* coordinate; making an iterator, advancing it and dropping it change
\* nothing in the container.
C20_Step ==
    /\ ret'.op = "write" =>
         /\ ~panicked'
         /\ grid'.val.size = grid.val.size
         /\ Len(grid'.val.elems) = Len(grid.val.elems)
         /\ \A i \in Untouchable(grid.val, trace_mut.val.rect,
                                 trace_mut.val.start) :
              grid'.val.elems[i] = grid.val.elems[i]
         /\ LET c == trace_mut.val.items[ret'.arg].coord
            IN  \A i \in Indices(Len(grid.val.elems)) :
                  i # c.y * grid.val.size.width + c.x + 1 =>
                      grid'.val.elems[i] = grid.val.elems[i]
    /\ ret'.op \in ExclFactoryOps \cup SharedFactoryOps
                   \cup {"next", "next_mut", "drop", "drop_mut"} =>
         grid' = grid

\* C20: a mutable iteration over rect started at start, with writes only
\* through the references the iterator emits, leaves every element outside
\* rect or before start unchanged and the size and the buffer length
\* unchanged; making and advancing an iterator without writing changes
\* nothing in the container.
C20_Frame == [][C20_Step]_vars

\* Two elements have been written through an exclusive iterator started
\* inside a rect that is narrower than the container and off column 0, and
\* the elements outside the rect and before the start are as from_vec left
\* them.
C20_Witness ==
    /\ ret.op = "write"
    /\ trace_mut.val.by = "rect_iter_mut_at"
    /\ trace_mut.val.rect.min_coord.x > 0
    /\ trace_mut.val.start # trace_mut.val.rect.min_coord
    /\ Cardinality({k \in 1..Len(trace_mut.val.items) :
                      trace_mut.val.items[k].written # None}) >= 2
    /\ \A i \in Untouchable(grid.val, trace_mut.val.rect, trace_mut.val.start) :
         grid.val.elems[i] = i

====
